---- MODULE Spec2Model ----
(***************************************************************************)
(* babyjson: the recursive-descent JSON parser of src/main.cpp.            *)
(*                                                                         *)
(* A text is a sequence of characters; a character is a one-letter string, *)
(* and the eight control characters the program names are written          *)
(* "<NUL>", "<LF>", "<CR>", "<TAB>", "<VT>", "<FF>", "<BS>", "<BEL>".      *)
(* The code indexes a string_view from 0 and TLA+ indexes a sequence from  *)
(* 1: the code's json[i] is json[i + 1] here, and every index named i, j,  *)
(* off or eaten in this module is the code's 0-based value.                *)
(*                                                                         *)
(* A std::string_view is a window on memory it does not own.  The program  *)
(* reads json[i] without a bounds check, so a read at i >= json.size()     *)
(* returns whatever byte lies behind the window: the variable tail holds   *)
(* those bytes, chosen freely in Init, and every byte behind tail is NUL.  *)
(***************************************************************************)
EXTENDS Integers, Sequences, FiniteSets, TLC

VARIABLES json, tail, pc, result

vars == <<json, tail, pc, result>>

----------------------------------------------------------------------------
(* Characters *)

DQ  == "\""
BSL == "\\"
NUL == "<NUL>"
LF  == "<LF>"
CR  == "<CR>"
TAB == "<TAB>"
VT  == "<VT>"
FF  == "<FF>"
BSP == "<BS>"
BEL == "<BEL>"

Digits == {"0", "1", "2", "3", "4", "5", "6", "7", "8", "9"}

DigitVal(c) ==
    CASE c = "0" -> 0 [] c = "1" -> 1 [] c = "2" -> 2 [] c = "3" -> 3
      [] c = "4" -> 4 [] c = "5" -> 5 [] c = "6" -> 6 [] c = "7" -> 7
      [] c = "8" -> 8 [] c = "9" -> 9

----------------------------------------------------------------------------
(* JSONObject: the variant of src/main.cpp:16-56 *)

(* A Dict payload is a function from keys (texts) to values: an            *)
(* unordered_map has no order.  A Double payload is the decimal value      *)
(* from_chars read (see DoubleValue); rounding to binary64 is not modelled.*)
JNull       == [tag |-> "Null"]
JBool(b)    == [tag |-> "Bool", val |-> b]
JInt(n)     == [tag |-> "Int", val |-> n]
JDouble(d)  == [tag |-> "Double", val |-> d]
JText(s)    == [tag |-> "Text", val |-> s]
JList(l)    == [tag |-> "List", val |-> l]
JDict(d)    == [tag |-> "Dict", val |-> d]

(* What one call of parse gives: the pair it returns, or an exception      *)
(* (threw); oob records that the call, or a call below it, read json[i]    *)
(* with i >= json.size().                                                  *)
Ret(obj, eaten, oob) ==
    [obj |-> obj, eaten |-> eaten, oob |-> oob, threw |-> FALSE]

Thrown(oob) ==
    [obj |-> JNull, eaten |-> 0, oob |-> oob, threw |-> TRUE]

----------------------------------------------------------------------------
(* string_view *)

(* json.substr(i), for i <= json.size() *)
substr(s, i) == SubSeq(s, i + 1, Len(s))

(* json[i]: unchecked *)
At(s, mem, i) ==
    IF i < Len(s) THEN s[i + 1]
    ELSE IF i - Len(s) < Len(mem) THEN mem[i - Len(s) + 1]
    ELSE NUL

npos == -1

(* The set find_first_not_of is given: the literal " \n\r\t\v\f\0" is      *)
(* passed as a const char*, whose length ends at the first NUL, so NUL     *)
(* itself is not in the set.                                               *)
Whitespace == {" ", LF, CR, TAB, VT, FF}

(* find_first_not_of with a set that has lost the space. *)
find_first_not_of_no_space(s) ==
    LET hits == {i \in 0..(Len(s) - 1) : s[i + 1] \notin Whitespace \ {" "}}
    IN  IF hits = {} THEN npos
        ELSE CHOOSE i \in hits : \A k \in hits : i <= k

find_first_not_of(s) ==
    LET hits == {i \in 0..(Len(s) - 1) : s[i + 1] \notin Whitespace}
    IN  IF hits = {} THEN npos
        ELSE CHOOSE i \in hits : \A k \in hits : i <= k

----------------------------------------------------------------------------
(* unescaped_char *)

(* unescaped_char without its case 'n'. *)
unescaped_char_no_newline(c) ==
    CASE c = "r" -> CR
      [] c = "0" -> NUL
      [] c = "t" -> TAB
      [] c = "v" -> VT
      [] c = "f" -> FF
      [] c = "b" -> BSP
      [] c = "a" -> BEL
      [] OTHER -> c

unescaped_char(c) ==
    CASE c = "n" -> LF
      [] c = "r" -> CR
      [] c = "0" -> NUL
      [] c = "t" -> TAB
      [] c = "v" -> VT
      [] c = "f" -> FF
      [] c = "b" -> BSP
      [] c = "a" -> BEL
      [] OTHER -> c

----------------------------------------------------------------------------
(* std::regex_search with num_re *)

MinOf(S) == CHOOSE x \in S : \A y \in S : x <= y

(* The index behind the longest run of digits that starts at p. *)
DigitsEnd(s, p) ==
    MinOf({k \in p..Len(s) : k = Len(s) \/ s[k + 1] \notin Digits})

(* [eE][+-]?[0-9]+ at c: the index behind it, or c when it does not match  *)
(* (the group is optional).                                                *)
ExponentEnd(s, c) ==
    IF c < Len(s) /\ s[c + 1] \in {"e", "E"}
    THEN LET sg == IF c + 1 < Len(s) /\ s[c + 2] \in {"+", "-"}
                   THEN c + 2 ELSE c + 1
             e  == DigitsEnd(s, sg)
         IN  IF e > sg THEN e ELSE c
    ELSE c

(* num_re, that is  [+-]? D+ ( \. D* )? ( [eE] [+-]? D+ )?  with D = [0-9], *)
(* matched at p with greedy quantifiers: the index behind the match, or    *)
(* npos.  Every part behind D+ is optional, so the greedy choice of each   *)
(* part is the match the backtracking matcher returns.                     *)
num_re_at(s, p) ==
    LET a == IF p < Len(s) /\ s[p + 1] \in {"+", "-"} THEN p + 1 ELSE p
        b == DigitsEnd(s, a)
        c == IF b < Len(s) /\ s[b + 1] = "." THEN DigitsEnd(s, b + 1) ELSE b
    IN  IF b > a THEN ExponentEnd(s, c) ELSE npos

(* regex_search is not anchored: it returns the leftmost match anywhere in *)
(* the text.                                                               *)
regex_search(s) ==
    LET starts == {p \in 0..(Len(s) - 1) : num_re_at(s, p) # npos}
    IN  IF starts = {} THEN [found |-> FALSE, str |-> <<>>]
        ELSE LET p == MinOf(starts)
             IN  [found |-> TRUE, str |-> SubSeq(s, p + 1, num_re_at(s, p))]

----------------------------------------------------------------------------
(* try_parse_num<T>: std::from_chars, and the test that it read all of str *)

RECURSIVE StripZeros(_)
StripZeros(d) ==
    IF d # <<>> /\ Head(d) = "0" THEN StripZeros(Tail(d)) ELSE d

RECURSIVE StripTrailingZeros(_)
StripTrailingZeros(d) ==
    IF d # <<>> /\ d[Len(d)] = "0"
    THEN StripTrailingZeros(SubSeq(d, 1, Len(d) - 1)) ELSE d

(* a <= b for digit strings without leading zeros, a padded with zeros on  *)
(* the right when it is the shorter (the comparison of two mantissas).     *)
RECURSIVE MantissaLE(_, _)
MantissaLE(a, b) ==
    IF a = <<>> THEN TRUE
    ELSE IF b = <<>> THEN StripZeros(a) = <<>>
    ELSE IF DigitVal(Head(a)) # DigitVal(Head(b))
         THEN DigitVal(Head(a)) < DigitVal(Head(b))
    ELSE MantissaLE(Tail(a), Tail(b))

(* The value of digit string d, with sign sgn, accumulated the way         *)
(* from_chars does; the caller has checked the range.                      *)
RECURSIVE Accumulate(_, _, _)
Accumulate(d, sgn, acc) ==
    IF d = <<>> THEN acc
    ELSE Accumulate(Tail(d), sgn, acc * 10 + sgn * DigitVal(Head(d)))

INT_MAX_DIGITS == <<"2", "1", "4", "7", "4", "8", "3", "6", "4", "7">>
INT_MIN_DIGITS == <<"2", "1", "4", "7", "4", "8", "3", "6", "4", "8">>

(* |d| fits a 32-bit int of the given sign. *)
IntInRange(d, neg) ==
    LET m   == StripZeros(d)
        lim == IF neg THEN INT_MIN_DIGITS ELSE INT_MAX_DIGITS
    IN  \/ Len(m) < Len(lim)
        \/ Len(m) = Len(lim) /\ MantissaLE(m, lim)

(* from_chars for int: an optional '-', then digits; no '+', no blanks.    *)
try_parse_int(str) ==
    LET neg == str # <<>> /\ str[1] = "-"
        a   == IF neg THEN 1 ELSE 0
        b   == DigitsEnd(str, a)
        d   == SubSeq(str, a + 1, b)
    IN  IF b > a /\ IntInRange(d, neg) /\ b = Len(str)
        THEN [ok |-> TRUE,
              value |-> Accumulate(StripZeros(d), IF neg THEN -1 ELSE 1, 0)]
        ELSE [ok |-> FALSE, value |-> 0]

(* The largest finite double is 1.7976931348623157e308; a nonzero value    *)
(* below half the smallest subnormal, 2.4703282292062327e-324, rounds to   *)
(* zero.  from_chars reports both as result_out_of_range.                  *)
DBL_MAX_DIGITS ==
    <<"1", "7", "9", "7", "6", "9", "3", "1", "3", "4", "8", "6", "2", "3",
      "1", "5", "7">>
DBL_TINY_DIGITS ==
    <<"2", "4", "7", "0", "3", "2", "8", "2", "2", "9", "2", "0", "6", "2",
      "3", "2", "7">>

(* An exponent field; one of more than four significant digits is far      *)
(* outside the range of a double whatever the mantissa of a short text, so *)
(* it is saturated.                                                        *)
ExponentValue(d) ==
    LET m == StripZeros(d)
    IN  IF Len(m) > 4 THEN 99999 ELSE Accumulate(m, 1, 0)

(* The decimal value sig[1].sig[2]... * 10^exp of a literal with integer   *)
(* digits ip, fraction digits fp and exponent e; zero has no digits.       *)
DoubleValue(neg, ip, fp, e) ==
    LET all == ip \o fp
        m   == StripZeros(all)
    IN  IF m = <<>> THEN [neg |-> neg, sig |-> <<>>, exp |-> 0]
        ELSE [neg |-> neg, sig |-> StripTrailingZeros(m),
              exp |-> e + Len(ip) - (Len(all) - Len(m)) - 1]

DoubleInRange(v) ==
    \/ v.sig = <<>>
    \/ /\ v.exp <= 308
       /\ v.exp = 308 => MantissaLE(v.sig, DBL_MAX_DIGITS)
       /\ v.exp >= -324
       /\ v.exp = -324 => ~MantissaLE(v.sig, DBL_TINY_DIGITS)

(* from_chars for double (chars_format::general): an optional '-', digits  *)
(* with an optional '.', an optional exponent; no '+' in front.  The texts *)
(* it is given are matches of num_re, which hold no "inf" or "nan".        *)
try_parse_double(str) ==
    LET neg == str # <<>> /\ str[1] = "-"
        a   == IF neg THEN 1 ELSE 0
        b   == DigitsEnd(str, a)
        dot == b < Len(str) /\ str[b + 1] = "."
        c   == IF dot THEN DigitsEnd(str, b + 1) ELSE b
        ip  == SubSeq(str, a + 1, b)
        fp  == IF dot THEN SubSeq(str, b + 2, c) ELSE <<>>
        e   == ExponentEnd(str, c)
        esg == IF e > c /\ str[c + 2] \in {"+", "-"} THEN c + 2 ELSE c + 1
        ev  == IF e > c
               THEN (IF str[c + 2] = "-" THEN -1 ELSE 1)
                    * ExponentValue(SubSeq(str, esg + 1, e))
               ELSE 0
        v   == DoubleValue(neg, ip, fp, ev)
    IN  IF Len(ip) + Len(fp) > 0 /\ DoubleInRange(v) /\ e = Len(str)
        THEN [ok |-> TRUE, value |-> v]
        ELSE [ok |-> FALSE, value |-> v]

----------------------------------------------------------------------------
(* parse *)

(* res.insert_or_assign(key, val) in place of try_emplace: the last        *)
(* occurrence wins.                                                        *)
insert_or_assign(res, key, val) ==
    [k \in DOMAIN res \cup {key} |-> IF k = key THEN val ELSE res[k]]

(* res.try_emplace(key, val): an existing entry is left as it is. *)
try_emplace(res, key, val) ==
    IF key \in DOMAIN res THEN res
    ELSE [k \in DOMAIN res \cup {key} |-> IF k = key THEN val ELSE res[k]]

(* The number branch, lines 119-135; when the search or both conversions   *)
(* fail, control leaves the if-chain and reaches line 244.                 *)
parse_number(s) ==
    LET m == regex_search(s)
        n == try_parse_int(m.str)
        d == try_parse_double(m.str)
    IN  IF m.found /\ n.ok THEN Ret(JInt(n.value), Len(m.str), FALSE)
        ELSE IF m.found /\ d.ok THEN Ret(JDouble(d.value), Len(m.str), FALSE)
        ELSE Ret(JNull, 0, FALSE)

(* The string branch's loop, lines 146-171, from index i in the given      *)
(* phase with str gathered so far.                                         *)
RECURSIVE string_loop(_, _, _, _)
string_loop(s, i, phase, str) ==
    IF ~(i < Len(s)) THEN Ret(JText(str), i, FALSE)
    ELSE LET ch == s[i + 1]
         IN  IF phase = "Raw"
             THEN IF ch = BSL THEN string_loop(s, i + 1, "Escaped", str)
                  ELSE IF ch = DQ THEN Ret(JText(str), i + 1, FALSE)
                  ELSE string_loop(s, i + 1, "Raw", Append(str, ch))
             ELSE string_loop(s, i + 1, "Raw", Append(str, unescaped_char(ch)))

RECURSIVE parse(_, _)
RECURSIVE array_loop(_, _, _, _, _)
RECURSIVE object_loop(_, _, _, _, _)

(* The array branch's loop, lines 178-198, from index i with res built so  *)
(* far.  After i += eaten the code reads json[i] with no test of i.        *)
array_loop(s, mem, i, res, oob) ==
    IF ~(i < Len(s)) THEN Ret(JList(res), i, oob)
    ELSE IF s[i + 1] = "]" THEN Ret(JList(res), i + 1, oob)
    ELSE LET r == parse(substr(s, i), mem)
             j == i + r.eaten
         IN  IF r.threw THEN Thrown(oob \/ r.oob)
             ELSE IF r.eaten = 0 THEN Ret(JList(res), 0, oob \/ r.oob)
             ELSE array_loop(s, mem,
                             IF At(s, mem, j) = "," THEN j + 1 ELSE j,
                             Append(res, r.obj),
                             oob \/ r.oob \/ j >= Len(s))

(* The object branch's loop, lines 205-242.  json.substr(i) throws         *)
(* std::out_of_range when i > json.size().                                 *)
object_loop(s, mem, i, res, oob) ==
    IF ~(i < Len(s)) THEN Ret(JDict(res), i, oob)
    ELSE IF s[i + 1] = "}" THEN Ret(JDict(res), i + 1, oob)
    ELSE LET k    == parse(substr(s, i), mem)
             j    == i + k.eaten
             j2   == IF At(s, mem, j) = ":" THEN j + 1 ELSE j
             oob2 == oob \/ k.oob \/ j >= Len(s)
         IN  IF k.threw THEN Thrown(oob \/ k.oob)
             ELSE IF k.eaten = 0 THEN Ret(JDict(res), 0, oob \/ k.oob)
             ELSE IF k.obj.tag # "Text" THEN Ret(JDict(res), 0, oob \/ k.oob)
             ELSE IF j2 > Len(s) THEN Thrown(oob2)
             ELSE LET v    == parse(substr(s, j2), mem)
                      j3   == j2 + v.eaten
                      oob3 == oob2 \/ v.oob \/ j3 >= Len(s)
                  IN  IF v.threw THEN Thrown(oob2 \/ v.oob)
                      ELSE IF v.eaten = 0
                           THEN Ret(JDict(res), 0, oob2 \/ v.oob)
                      ELSE object_loop(s, mem,
                                       IF At(s, mem, j3) = "," THEN j3 + 1
                                                               ELSE j3,
                                       try_emplace(res, k.obj.val, v.obj),
                                       oob3)

(* parse(json), lines 95-245; mem is the memory behind the view, which a   *)
(* sub-view json.substr(off) shares.                                       *)
parse(s, mem) ==
    LET off == find_first_not_of(s)
    IN  IF s = <<>> THEN Ret(JNull, 0, FALSE)
        ELSE IF off # 0 /\ off # npos
             THEN LET r == parse(substr(s, off), mem)
                  IN  IF r.threw THEN r
                      ELSE Ret(r.obj, r.eaten + off, r.oob)
        ELSE IF s[1] = "t" THEN Ret(JBool(TRUE), 4, FALSE)
        ELSE IF s[1] = "f" THEN Ret(JBool(FALSE), 5, FALSE)
        ELSE IF s[1] \in Digits \cup {"+", "-"} THEN parse_number(s)
        ELSE IF s[1] = DQ THEN string_loop(s, 1, "Raw", <<>>)
        ELSE IF s[1] = "[" THEN array_loop(s, mem, 1, <<>>, FALSE)
        ELSE IF s[1] = "{" THEN object_loop(s, mem, 1, <<>>, FALSE)
        ELSE Ret(JNull, 0, FALSE)

----------------------------------------------------------------------------
(* The texts parse is applied to *)

(* All texts over alphabet A of at most n characters. *)
TextsUpTo(A, n) == UNION {[1..k -> A] : k \in 0..n}

(* Texts the repository's description and main() give; DemoText is the     *)
(* literal of main(), line 259.                                            *)
DemoText ==
    <<"{", DQ, "m", "a", "t", "h", DQ, ":", " ", "t", "r", "u", "e", ",",
    " ", DQ, "e", "n", "g", "l", "i", "s", "h", DQ, ":", " ", DQ, "g",
    "o", "o", "d", BSL, "n", DQ, "}">>

HoleText ==
    <<"[", "1", ",", " ", ",", " ", "3", "]">>

DupText ==
    <<"{", DQ, "a", DQ, ":", "1", ",", DQ, "a", DQ, ":", "2", "}">>

TabText ==
    <<DQ, "a", BSL, "t", "b", DQ>>

NullText ==
    <<"n", "u", "l", "l">>

Examples == {DemoText, HoleText, DupText, TabText, NullText}

(* Texts of containers, separators, blanks and short values. *)
MaxLen == 4
Alphabet == {"[", "]", "{", "}", ",", ":", " ", "1", "t", DQ, "a"}
Inputs == TextsUpTo(Alphabet, MaxLen) \cup Examples

(* Strings: an opening quote, then quotes, backslashes, the eight escape   *)
(* codes and a plain letter.                                               *)
StrMaxLen == 4
StrAlphabet == {DQ, BSL, "n", "r", "0", "t", "v", "f", "b", "a", "x"}
StrInputs ==
    {<<DQ>> \o w : w \in TextsUpTo(StrAlphabet, StrMaxLen)} \cup {TabText}

(* Numbers: signs, digits, the point, the exponent letter and a letter     *)
(* that belongs to no number, with the literals at the edges of int.       *)
NumMaxLen == 5
NumAlphabet == {"+", "-", "1", "9", ".", "e", "x"}
NumInputs ==
    TextsUpTo(NumAlphabet, NumMaxLen)
        \cup {INT_MAX_DIGITS, INT_MIN_DIGITS, <<"-">> \o INT_MIN_DIGITS}

(* Blanks: the seven characters of the literal at line 101 and starts of   *)
(* values.                                                                 *)
WsMaxLen == 4
WsAlphabet == {" ", LF, CR, TAB, VT, FF, NUL, "1", "t", "x"}
WsInputs == TextsUpTo(WsAlphabet, WsMaxLen)

(* Objects: '{', up to MaxPairs pairs joined by ',', '}'; a pair is a key  *)
(* "a" or "b", a colon, and 1, 2 or true, with or without a blank before   *)
(* the value.                                                              *)
MaxPairs == 3
KeyLetters == {"a", "b"}
ObjValues ==
    {<<":", "1">>, <<":", "2">>, <<":", " ", "2">>,
     <<":", " ", "t", "r", "u", "e">>}
ObjPairs == {<<DQ, k, DQ>> \o v : k \in KeyLetters, v \in ObjValues}

RECURSIVE ObjBodies(_)
ObjBodies(n) ==
    IF n = 1 THEN ObjPairs
    ELSE {b \o <<",">> \o q : b \in ObjBodies(n - 1), q \in ObjPairs}

ObjTexts ==
    {<<"{">> \o b \o <<"}">> : b \in UNION {ObjBodies(n) : n \in 1..MaxPairs}}
ObjInputs == ObjTexts \cup {DupText, DemoText}

(* The bytes behind the text: only ',' and ':' are told from other bytes   *)
(* by the reads that can leave the view.                                   *)
TailLen == 1
TailChars == {",", ":", NUL}
Tails == [1..TailLen -> TailChars]

NoResult == Ret(JNull, 0, FALSE)

TypeOK ==
    /\ pc \in {"ready", "done", "aborted"}
    /\ tail \in Tails
    /\ result.eaten \in Nat
    /\ result.threw \in BOOLEAN
    /\ result.oob \in BOOLEAN

InitOn(S) ==
    /\ json \in S
    /\ tail \in Tails
    /\ pc = "ready"
    /\ result = NoResult

(* auto [obj, eaten] = parse(str); an exception that leaves parse leaves   *)
(* main too, which has no handler.                                         *)
CallParse ==
    /\ pc = "ready"
    /\ result' = parse(json, tail)
    /\ pc' = IF result'.threw THEN "aborted" ELSE "done"
    /\ UNCHANGED <<json, tail>>

Next == CallParse

Init == InitOn(Inputs)
InitStr == InitOn(StrInputs)
InitNum == InitOn(NumInputs)
InitWs == InitOn(WsInputs)
InitObj == InitOn(ObjInputs)

Spec == Init /\ [][Next]_vars
SpecStr == InitStr /\ [][Next]_vars
SpecNum == InitNum /\ [][Next]_vars
SpecWs == InitWs /\ [][Next]_vars
SpecObj == InitObj /\ [][Next]_vars

----------------------------------------------------------------------------
(* Properties.  Parsed says that parse has returned to main; Ended, that   *)
(* it has returned or thrown.                                              *)

Parsed == pc = "done"
Ended == pc \in {"done", "aborted"}

(* The blanks the description lists: the six of Whitespace, and NUL. *)
ListedBlanks == {" ", TAB, LF, CR, VT, FF, NUL}

(* C1: failure propagates as zero consumed length through an array.  The   *)
(* first element position of a text that starts with '[' is the first      *)
(* character behind '[' and any blanks; when it is not ']' and the text    *)
(* from there does not parse (parse consumes 0), parse of the whole text   *)
(* consumes 0.  In particular parse("[1, , 3]") is a List with consumed    *)
(* length 0.                                                               *)
C1_FailurePropagates ==
    Parsed /\ json # <<>> /\ json[1] = "[" =>
        /\ \A p \in 1..(Len(json) - 1) :
              ( /\ \A q \in 1..(p - 1) : json[q + 1] \in ListedBlanks
                /\ json[p + 1] \notin ListedBlanks \cup {"]"}
                /\ ~parse(substr(json, p), tail).threw
                /\ parse(substr(json, p), tail).eaten = 0 )
              => result.eaten = 0
        /\ json = HoleText => result.obj.tag = "List" /\ result.eaten = 0

(* C8: no partial result is returned: a List or Dict returned with         *)
(* consumed length 0 holds no element and no entry.                        *)
C8_NoPartialResult ==
    Parsed /\ result.eaten = 0 /\ result.obj.tag \in {"List", "Dict"} =>
        DOMAIN result.obj.val = {}

(* C9: the consumed length parse returns is at most the length of the      *)
(* text it was given.                                                      *)
C9_EatenWithinText ==
    Parsed => result.eaten <= Len(json)

(* C10: every read json[i] that parse makes has i < json.size().           *)
C10_ReadsInBounds ==
    Ended => ~result.oob

----------------------------------------------------------------------------
(* The JSON grammar (RFC 8259), used to say which texts are well formed.   *)
(* Each operator gives the index behind the construct that starts at i,    *)
(* or npos when none does.  \u escapes are left out: a text with one is    *)
(* not counted as well formed here.                                        *)

JsonBlanks == {" ", TAB, LF, CR}
JsonEscapes == {DQ, BSL, "/", "b", "f", "n", "r", "t"}
ControlChars == {NUL, LF, CR, TAB, VT, FF, BSP, BEL}

JsonSkipBlanks(s, i) ==
    MinOf({k \in i..Len(s) : k = Len(s) \/ s[k + 1] \notin JsonBlanks})

JsonWordEnd(s, i, w) ==
    IF i + Len(w) <= Len(s) /\ SubSeq(s, i + 1, i + Len(w)) = w
    THEN i + Len(w) ELSE npos

(* -? (0 | [1-9] D* ) ( \. D+ )? ( [eE] [+-]? D+ )?  , the longest one *)
JsonNumberEnd(s, i) ==
    LET a == IF i < Len(s) /\ s[i + 1] = "-" THEN i + 1 ELSE i
        b == IF a < Len(s) /\ s[a + 1] = "0" THEN a + 1 ELSE DigitsEnd(s, a)
        f == IF b < Len(s) /\ s[b + 1] = "." THEN DigitsEnd(s, b + 1) ELSE b
        c == IF f > b + 1 THEN f ELSE b
    IN  IF b > a THEN ExponentEnd(s, c) ELSE npos

RECURSIVE JsonStringEnd(_, _)
JsonStringEnd(s, i) ==
    IF ~(i < Len(s)) \/ s[i + 1] \in ControlChars THEN npos
    ELSE IF s[i + 1] = DQ THEN i + 1
    ELSE IF s[i + 1] = BSL
         THEN IF i + 1 < Len(s) /\ s[i + 2] \in JsonEscapes
              THEN JsonStringEnd(s, i + 2) ELSE npos
    ELSE JsonStringEnd(s, i + 1)

RECURSIVE JsonValueEnd(_, _)
RECURSIVE JsonElementsEnd(_, _)
RECURSIVE JsonMembersEnd(_, _)

(* value ws ( ',' ws value ws )* ']' from i *)
JsonElementsEnd(s, i) ==
    LET e == JsonValueEnd(s, i)
        k == JsonSkipBlanks(s, e)
    IN  IF e = npos \/ ~(k < Len(s)) THEN npos
        ELSE IF s[k + 1] = "]" THEN k + 1
        ELSE IF s[k + 1] = ","
             THEN JsonElementsEnd(s, JsonSkipBlanks(s, k + 1))
        ELSE npos

(* string ws ':' ws value ws ( ',' ws ... )* '}' from i *)
JsonMembersEnd(s, i) ==
    LET q == IF i < Len(s) /\ s[i + 1] = DQ
             THEN JsonStringEnd(s, i + 1) ELSE npos
        c == JsonSkipBlanks(s, q)
        e == JsonValueEnd(s, JsonSkipBlanks(s, c + 1))
        k == JsonSkipBlanks(s, e)
    IN  IF q = npos \/ ~(c < Len(s)) \/ s[c + 1] # ":" THEN npos
        ELSE IF e = npos \/ ~(k < Len(s)) THEN npos
        ELSE IF s[k + 1] = "}" THEN k + 1
        ELSE IF s[k + 1] = ","
             THEN JsonMembersEnd(s, JsonSkipBlanks(s, k + 1))
        ELSE npos

JsonValueEnd(s, i) ==
    IF ~(i < Len(s)) THEN npos
    ELSE LET c == s[i + 1]
             n == JsonSkipBlanks(s, i + 1)
         IN  IF c = "n" THEN JsonWordEnd(s, i, <<"n", "u", "l", "l">>)
             ELSE IF c = "t" THEN JsonWordEnd(s, i, <<"t", "r", "u", "e">>)
             ELSE IF c = "f"
                  THEN JsonWordEnd(s, i, <<"f", "a", "l", "s", "e">>)
             ELSE IF c = "-" \/ c \in Digits THEN JsonNumberEnd(s, i)
             ELSE IF c = DQ THEN JsonStringEnd(s, i + 1)
             ELSE IF c = "["
                  THEN IF n < Len(s) /\ s[n + 1] = "]" THEN n + 1
                       ELSE JsonElementsEnd(s, n)
             ELSE IF c = "{"
                  THEN IF n < Len(s) /\ s[n + 1] = "}" THEN n + 1
                       ELSE JsonMembersEnd(s, n)
             ELSE npos

(* The length of the well-formed JSON text (blanks, then a value) that     *)
(* text s starts with, or npos.                                            *)
WellFormedPrefix(s) == JsonValueEnd(s, JsonSkipBlanks(s, 0))

(* C3: for every text that starts with a well-formed JSON text, whatever   *)
(* follows it, parse consumes exactly the length of that well-formed       *)
(* prefix: not 0 and not more.                                             *)
C3_ConsumesWellFormedPrefix ==
    Parsed /\ WellFormedPrefix(json) # npos =>
        result.eaten = WellFormedPrefix(json)

----------------------------------------------------------------------------
(* Numbers *)

AllDigits(w) == \A i \in 1..Len(w) : w[i] \in Digits

(* w is a word of [+-]? D+ ( \. D* )? ( [eE] [+-]? D+ )?, said by its      *)
(* parts: sign w[1..a], digits w[a+1..b], fraction w[b+1..c], exponent     *)
(* w[c+1..].                                                               *)
IsNumeral(w) ==
    \E a \in 0..1, b \in 1..Len(w), c \in 1..Len(w) :
        /\ a < b /\ b <= c
        /\ a = 1 => w[1] \in {"+", "-"}
        /\ AllDigits(SubSeq(w, a + 1, b))
        /\ c > b => w[b + 1] = "." /\ AllDigits(SubSeq(w, b + 2, c))
        /\ c < Len(w) =>
              /\ w[c + 1] \in {"e", "E"}
              /\ \E g \in (c + 1)..(c + 2) :
                    /\ g < Len(w)
                    /\ g = c + 2 => w[c + 2] \in {"+", "-"}
                    /\ AllDigits(SubSeq(w, g + 1, Len(w)))

(* The lengths of the prefixes of s that are numerals. *)
NumeralPrefixes(s) == {k \in 1..Len(s) : IsNumeral(SubSeq(s, 1, k))}

MaxOf(S) == CHOOSE x \in S : \A y \in S : y <= x

(* What C6 says parse returns on s. *)
NumberClaim(s) ==
    IF NumeralPrefixes(s) = {} THEN Ret(JNull, 0, FALSE)
    ELSE LET str == SubSeq(s, 1, MaxOf(NumeralPrefixes(s)))
         IN  IF try_parse_int(str).ok
             THEN Ret(JInt(try_parse_int(str).value), Len(str), FALSE)
             ELSE IF try_parse_double(str).ok
             THEN Ret(JDouble(try_parse_double(str).value), Len(str), FALSE)
             ELSE Ret(JNull, 0, FALSE)

(* C6: on a text that starts with a digit, '+' or '-', the longest prefix  *)
(* of the text that is a numeral is taken; the result is Int when all of   *)
(* it reads as a 32-bit integer, else Double when all of it reads as a     *)
(* floating-point literal, and its length is consumed; when no prefix is   *)
(* a numeral, or neither reading takes all of it, the result is (Null, 0). *)
C6_LongestNumericPrefix ==
    Parsed /\ json # <<>> /\ json[1] \in Digits \cup {"+", "-"} =>
        result = NumberClaim(json)

----------------------------------------------------------------------------
(* Blanks *)

(* The number of listed blanks the text starts with. *)
LeadingBlanks(s) ==
    MinOf({k \in 0..Len(s) : k = Len(s) \/ s[k + 1] \notin ListedBlanks})

(* C7: on a text that starts with k >= 1 of the seven listed blanks (NUL   *)
(* among them) followed by another character, parse returns the value it   *)
(* returns on the rest, and consumes k more than it consumes there.        *)
C7_SkipsListedBlanks ==
    LET k == LeadingBlanks(json)
        r == parse(substr(json, k), tail)
    IN  Ended /\ 1 <= k /\ k < Len(json) =>
            /\ result.threw = r.threw
            /\ ~r.threw => /\ result.obj = r.obj
                           /\ result.eaten = k + r.eaten

----------------------------------------------------------------------------
(* Strings *)

(* The escape codes C5 lists, each with its control character. *)
ListedEscapes ==
    {<<"n", LF>>, <<"r", CR>>, <<"0", NUL>>, <<"t", TAB>>, <<"v", VT>>,
     <<"f", FF>>, <<"b", BSP>>, <<"a", BEL>>}

Resolved(c) ==
    IF \E e \in ListedEscapes : e[1] = c
    THEN (CHOOSE e \in ListedEscapes : e[1] = c)[2]
    ELSE c

(* The scanner's state when it reads s[i]: Escaped exactly when the        *)
(* character before was a backslash read in Raw.                           *)
RECURSIVE ReadEscaped(_, _)
ReadEscaped(s, i) ==
    i > 1 /\ s[i] = BSL /\ ~ReadEscaped(s, i - 1)

(* Indices of the quotes read in Raw, behind the opening quote. *)
RawQuotes(s) ==
    {i \in 1..(Len(s) - 1) : s[i + 1] = DQ /\ ~ReadEscaped(s, i)}

(* Where the scan of s stops: at the first quote read in Raw, else at the  *)
(* end of the text.                                                        *)
ScanStop(s) == IF RawQuotes(s) = {} THEN Len(s) ELSE MinOf(RawQuotes(s))

(* The text gathered from s[1..n-1]. *)
RECURSIVE Gathered(_, _)
Gathered(s, n) ==
    IF n <= 1 THEN <<>>
    ELSE Gathered(s, n - 1) \o
            ( IF ReadEscaped(s, n - 1) THEN <<Resolved(s[n])>>
              ELSE IF s[n] = BSL THEN <<>>
              ELSE <<s[n]>> )

(* C5: on a text that starts with a double quote parse returns a Text.  A  *)
(* backslash read in Raw is dropped and the next character, resolved by    *)
(* the listed escapes, is appended whatever it is; the first quote read in *)
(* Raw ends the string and is consumed (consumed length = its index + 1);  *)
(* when the text ends first, the Text gathered so far is returned with the *)
(* whole length consumed.  The 6 characters "a\tb" give (Text(a,TAB,b),6). *)
C5_StringScanner ==
    Ended /\ json # <<>> /\ json[1] = DQ =>
        /\ result = Ret(JText(Gathered(json, ScanStop(json))),
                        IF RawQuotes(json) = {} THEN Len(json)
                        ELSE ScanStop(json) + 1,
                        FALSE)
        /\ json = TabText => result = Ret(JText(<<"a", TAB, "b">>), 6, FALSE)

(* A string with an escaped quote and a closing quote has been scanned:    *)
(* the escaped quote is in the Text and the closing one is consumed.       *)
C5_Witness ==
    /\ Parsed
    /\ json = <<DQ, BSL, DQ, "x", DQ>>
    /\ result = Ret(JText(<<DQ, "x">>), 5, FALSE)

----------------------------------------------------------------------------
(* Objects *)

(* Where key "k" stands in an object text of ObjTexts (1-based places of   *)
(* its opening quote); such a text holds no other quotes.                  *)
KeyPlaces(s, k) ==
    {q \in 1..(Len(s) - 2) : s[q] = DQ /\ s[q + 1] = k /\ s[q + 2] = DQ}

(* The value written behind the key at place q, behind ':' and a blank. *)
ValueBehind(s, q) ==
    LET a == IF s[q + 3] = ":" THEN q + 4 ELSE q + 3
        b == IF s[a] = " " THEN a + 1 ELSE a
    IN  IF s[b] = "1" THEN JInt(1)
        ELSE IF s[b] = "2" THEN JInt(2)
        ELSE JBool(TRUE)

(* C4: duplicate keys keep the first occurrence.  For every object text    *)
(* (of ObjTexts) the Dict holds exactly the keys written in it, a key      *)
(* written more than once is mapped to the value of its first occurrence,  *)
(* and the whole text, later pairs included, is consumed; the text         *)
(* {"a":1,"a":2} gives (Dict{"a": Int(1)}, 13).                            *)
C4_FirstOccurrenceWins ==
    /\ Parsed /\ json \in ObjTexts =>
          /\ result.obj.tag = "Dict"
          /\ DOMAIN result.obj.val =
                {<<k>> : k \in {x \in KeyLetters : KeyPlaces(json, x) # {}}}
          /\ \A k \in KeyLetters :
                Cardinality(KeyPlaces(json, k)) > 1 =>
                    result.obj.val[<<k>>] =
                        ValueBehind(json, MinOf(KeyPlaces(json, k)))
          /\ result.eaten = Len(json)
    /\ Parsed /\ json = DupText =>
          result = Ret(JDict(<<"a">> :> JInt(1)), 13, FALSE)

(* An object text with a key written more than once, with a later value   *)
(* that differs from the one the Dict holds, has been parsed.              *)
C4_Witness ==
    /\ Parsed
    /\ json \in ObjTexts
    /\ \E k \in KeyLetters :
          /\ Cardinality(KeyPlaces(json, k)) > 1
          /\ \E q \in KeyPlaces(json, k) :
                ValueBehind(json, q) # result.obj.val[<<k>>]

(* What C2 says main()'s text gives, but for the consumed length. *)
DemoDict ==
    JDict(<<"m", "a", "t", "h">> :> JBool(TRUE)
          @@ <<"e", "n", "g", "l", "i", "s", "h">>
                :> JText(<<"g", "o", "o", "d", LF>>))

(* C2, as claimed: the text of main() gives the Dict with exactly "math"   *)
(* -> Bool(true) and "english" -> Text("good" and a newline), and the      *)
(* consumed length is the length of the text, which is 38.                 *)
C2_DemoConsumes38 ==
    Parsed /\ json = DemoText =>
        /\ result.obj = DemoDict
        /\ result.eaten = Len(json)
        /\ result.eaten = 38

(* C2, amended: the same Dict, and the consumed length is the length of    *)
(* the text, which is 35.                                                  *)
C2_DemoConsumes35 ==
    Parsed /\ json = DemoText =>
        /\ result.obj = DemoDict
        /\ result.eaten = Len(json)
        /\ result.eaten = 35

(* main()'s text has been parsed. *)
C2_Witness ==
    Parsed /\ json = DemoText /\ result.obj.tag = "Dict"

====
